---- MODULE Spec2Model ----
(***************************************************************************)
(* A model of the rusmat dense-matrix containers.                          *)
(*                                                                         *)
(*   data_struct.rs : Matrix { data: Rc<MatData>, vdim: Dim, axis: Axes }  *)
(*                    with a shared, interior-mutable buffer               *)
(*   matrix.rs      : Matrix { data: Vector, rows, cols, mode, strd }      *)
(*   slice.rs       : MatrixSlice / MatrixMutSlice over a matrix.rs Matrix *)
(*                                                                         *)
(* Element values are small integers (every one is exactly representable   *)
(* in the Float type the library is instantiated with).  Buffers are       *)
(* 1-based sequences; a flat offset k of the code is element k+1.          *)
(***************************************************************************)
EXTENDS Integers, Sequences, FiniteSets, TLC

VARIABLES
    bufs,      \* the heap of MatData values, one per Rc allocation
    mats,      \* the live data_struct::Matrix handles
    iter,      \* the MatIntoIterator in use, or NoIter
    yielded,   \* the elements the iterator has returned so far
    made,      \* for each handle, the call that returned it and whether it was moved
    nset,      \* the number of set calls that have returned
    xmats,     \* the live matrix::Matrix values (each owns its Vector)
    slices,    \* the MatrixSlice / MatrixMutSlice values returned
    vecs,      \* the Vector values made, each with the call that returned it
    last       \* the call made last, its arguments and its outcome

vars == <<bufs, mats, iter, yielded, made, nset, xmats, slices, vecs, last>>

---------------------------------------------------------------------------
(* Bounds of the model.                                                    *)

MaxDim == 3          \* largest row or column count handed to a constructor
MaxMats == 3         \* most Matrix handles alive at once
MaxSets == 1         \* most successful set calls in one run

Dims == 0..MaxDim
Coords == 0..MaxDim                      \* coordinates passed to get and set
Lens == 0..(MaxDim * MaxDim)
SetVals == {42}                          \* values written by set
Bases == {0}                             \* data handed over is base+1, base+2, ...
Fns == {"rc"}                            \* generator functions for from_fn
MaxBegin == 1                            \* largest begin row or column asked of a slice
MaxVecLen == 3                           \* length of the data handed to Vector::new
MaxVal == 2                              \* finite elements are 1..MaxVal
MaxApplies == 2                          \* apply calls in one run
SliceDims == 0..(MaxDim + 1)             \* row and column counts asked of a slice
Begins == 0..MaxBegin
EyeDims == Dims \cup {5, 10}             \* sizes handed to eye

Iota(n, base) == [k \in 1..n |-> base + k]

ApplyFn(f, i, j) == IF f = "rc" THEN 10 * i + j + 11 ELSE i + j + 1

---------------------------------------------------------------------------
(* Outcomes of a call.                                                     *)

NoIter == [active |-> FALSE]

Ok(v) == [status |-> "ok", val |-> v, err |-> "none"]
Panic(e) == [status |-> "panic", val |-> 0, err |-> e]
None == [status |-> "none", val |-> 0, err |-> "none"]


---------------------------------------------------------------------------
(* data_struct.rs: Axes, Dim, MatData, Matrix.                             *)

Axes_t(a) == IF a = "Column" THEN "Row" ELSE "Column"

Dim_full(r, c) == [start |-> <<0, 0>>, end |-> <<r, c>>]
Dim_nrows(d) == d.end[1] - d.start[1]
Dim_ncols(d) == d.end[2] - d.start[2]
start_row(d) == d.start[1]
start_col(d) == d.start[2]

MatData(r, c, d) == [r |-> r, c |-> c, d |-> d]
Matrix(data, vdim, axis) == [data |-> data, vdim |-> vdim, axis |-> axis]

shape(m) == <<Dim_nrows(m.vdim), Dim_ncols(m.vdim)>>
size(m, heap) == Len(heap[m.data].d)

nrows(m) == IF m.axis = "Column" THEN Dim_ncols(m.vdim) ELSE Dim_nrows(m.vdim)
ncols(m) == IF m.axis = "Column" THEN Dim_nrows(m.vdim) ELSE Dim_ncols(m.vdim)

\* (idx % c) * r + idx / c; the remainder panics when c = 0
tridx(b, idx) == (idx % b.c) * b.r + (idx \div b.c)

index_div_zero(m, b) == m.axis = "Column" /\ b.c = 0

index(m, b, r, c) ==
    IF m.axis = "Column"
    THEN LET r2 == start_col(m.vdim) + r
             c2 == start_row(m.vdim) + c
         IN  tridx(b, c2 * b.c + r2)
    ELSE LET r2 == start_row(m.vdim) + c
             c2 == start_col(m.vdim) + r
         IN  c2 * b.r + r2

get(m, heap, rid, cid) ==
    LET b == heap[m.data] IN
    IF index_div_zero(m, b) THEN Panic("DivideByZero")
    ELSE LET i == index(m, b, rid, cid) IN
         IF i < Len(b.d) THEN Ok(b.d[i + 1]) ELSE Panic("IndexOutOfBounds")

\* the outcome of set and the heap it leaves
set(m, heap, rid, cid, val) ==
    LET b == heap[m.data] IN
    IF index_div_zero(m, b)
    THEN [out |-> Panic("DivideByZero"), heap |-> heap]
    ELSE LET i == index(m, b, rid, cid) IN
         IF i < Len(b.d)
         THEN [out |-> Ok(val),
               heap |-> [heap EXCEPT ![m.data].d[i + 1] = val]]
         ELSE [out |-> Panic("IndexOutOfBounds"), heap |-> heap]

\* vdim of the matrix transpose returns: Dim::full(self.nrows(), self.ncols())
\* on the Column branch, Dim::full(self.ncols(), self.nrows()) on the Row branch
transpose_vdim_same(m) == Dim_full(nrows(m), ncols(m))

transpose_vdim(m) ==
    IF m.axis = "Column"
    THEN Dim_full(nrows(m), ncols(m))
    ELSE Dim_full(ncols(m), nrows(m))

\* the heap transpose leaves: _data goes into a new Rc allocation
transpose_alloc_in_place(m, heap, _data) ==
    Append([heap EXCEPT ![m.data].d = _data],
           MatData(ncols(m), nrows(m), _data))

\* a transpose whose new MatData takes both extents from nrows()
transpose_alloc_square(m, heap, _data) ==
    Append(heap, MatData(nrows(m), nrows(m), _data))

transpose_alloc(m, heap, _data) ==
    Append(heap, MatData(ncols(m), nrows(m), _data))

\* Features::transpose: the outcome, the heap it leaves and the handle
\* returned.  `build` is the build profile: nr * nc - 1 on an empty matrix
\* panics on the subtraction in a debug build and wraps in a release build,
\* where the first pass of the loop then indexes the empty buffer.
transpose(m, heap, build) ==
    LET b == heap[m.data]
        nr == nrows(m)
        nc == ncols(m)
        n == Len(b.d)
        l == nr * nc - 1
        k == IF m.axis = "Column" THEN nc ELSE nr
        _data == [i \in 1..n |->
                    IF i - 1 < l THEN b.d[(((i - 1) * k) % l) + 1] ELSE b.d[i]]
    IN  IF nr * nc # n
        THEN [out |-> Panic("AssertEq")]
        ELSE IF nr * nc = 0
        THEN [out |-> Panic(IF build = "debug" THEN "SubtractOverflow"
                                               ELSE "IndexOutOfBounds")]
        ELSE [out |-> Ok(0),
              heap |-> transpose_alloc(m, heap, _data),
              mat |-> Matrix(Len(heap) + 1, transpose_vdim(m), Axes_t(m.axis))]

\* Constructors: the outcome, and for a matrix that is returned its buffer,
\* viewport and axis.
from_vec_unchecked(data, nrow, ncol) ==
    [out |-> Ok(0), buf |-> MatData(nrow, ncol, data),
     vdim |-> Dim_full(nrow, ncol), axis |-> "Column"]

from_vec(data, nrow, ncol) ==
    IF Len(data) # nrow * ncol
    THEN [out |-> Panic("AssertEq")]
    ELSE [out |-> Ok(0), buf |-> MatData(nrow, ncol, data),
          vdim |-> Dim_full(nrow, ncol), axis |-> "Column"]

\* for i in 0..nrow { for j in 0..ncol { d.push(f(i,j)) } }
from_fn(nrow, ncol, f) ==
    LET d == [k \in 1..(nrow * ncol) |->
                ApplyFn(f, (k - 1) \div ncol, (k - 1) % ncol)]
    IN  [out |-> Ok(0), buf |-> MatData(nrow, ncol, d),
         vdim |-> Dim_full(nrow, ncol), axis |-> "Column"]

unit(nrow, ncol) ==
    [out |-> Ok(0), buf |-> MatData(nrow, ncol, [k \in 1..(nrow * ncol) |-> 1]),
     vdim |-> Dim_full(nrow, ncol), axis |-> "Column"]

\* a zero whose buffer holds nrow * nrow elements
zero_square(nrow, ncol) ==
    [out |-> Ok(0), buf |-> MatData(nrow, ncol, [k \in 1..(nrow * nrow) |-> 0]),
     vdim |-> Dim_full(nrow, ncol), axis |-> "Column"]

zero(nrow, ncol) ==
    [out |-> Ok(0), buf |-> MatData(nrow, ncol, [k \in 1..(nrow * ncol) |-> 0]),
     vdim |-> Dim_full(nrow, ncol), axis |-> "Column"]

\* the loop of diag: mat.set(i, i, vec[i]) for i in from..n-1, on a one-buffer heap
RECURSIVE diag_loop(_, _, _, _)
diag_loop(m, heap, vec, from) ==
    IF from >= Len(vec) THEN [out |-> Ok(0), heap |-> heap]
    ELSE LET s == set(m, heap, from, from, vec[from + 1]) IN
         IF s.out.status = "panic" THEN s
         ELSE diag_loop(m, s.heap, vec, from + 1)

diag_unit_fill(vec) ==
    LET n == Len(vec)
        m == Matrix(1, Dim_full(n, n), "Column")
        heap == <<MatData(n, n, [k \in 1..(n * n) |-> 1])>>
        done == diag_loop(m, heap, vec, 0)
    IN  IF done.out.status = "panic" THEN [out |-> done.out]
        ELSE [out |-> Ok(0), buf |-> done.heap[1],
              vdim |-> m.vdim, axis |-> m.axis]

diag(vec) ==
    LET n == Len(vec)
        m == Matrix(1, Dim_full(n, n), "Column")
        heap == <<MatData(n, n, [k \in 1..(n * n) |-> 0])>>
        done == diag_loop(m, heap, vec, 0)
    IN  IF done.out.status = "panic" THEN [out |-> done.out]
        ELSE [out |-> Ok(0), buf |-> done.heap[1],
              vdim |-> m.vdim, axis |-> m.axis]

eye(n) == diag([k \in 1..n |-> 1])

\* MatIntoIterator::next: the outcome (None at the end) and the index left
next(it, heap) ==
    IF it.index[2] >= Dim_ncols(it.mat.vdim)
    THEN [out |-> None, index |-> it.index]
    ELSE LET val == get(it.mat, heap, it.index[1], it.index[2])
             i0 == it.index[1] + 1
         IN  IF val.status = "panic" THEN [out |-> val, index |-> it.index]
             ELSE [out |-> val,
                   index |-> IF i0 >= Dim_nrows(it.mat.vdim)
                             THEN <<0, it.index[2] + 1>>
                             ELSE <<i0, it.index[2]>>]

---------------------------------------------------------------------------
(* matrix.rs: Axis, Matrix (it owns its Vector; nothing is shared).        *)

\* `match self { Column => Axis::Row, Row => Axis::Column }`: Column and Row
\* are not in scope as paths, so both arms are binding patterns and the first
\* one matches every value.
Axis_transpose(a) == "Row"
Axis_t(a) == Axis_transpose(a)

XMatrix(data, rows, cols, mode, strd) ==
    [data |-> data, rows |-> rows, cols |-> cols, mode |-> mode, strd |-> strd]

mx_tridx(m, id) == (id % m.cols) * m.rows + (id \div m.cols)

mx_index_div_zero(m) == m.mode = "Column" /\ m.cols = 0

mx_index(m, rid, cid) ==
    IF m.mode = "Column"
    THEN mx_tridx(m, cid * m.rows + rid)
    ELSE rid * m.rows + cid

\* self.data.as_slice().get(i): None beyond the end of the data
mx_get(m, rid, cid) ==
    IF mx_index_div_zero(m) THEN Panic("DivideByZero")
    ELSE LET i == mx_index(m, rid, cid) IN
         IF i < Len(m.data) THEN Ok(m.data[i + 1]) ELSE None

\* vals[value] = val: the slice index panics beyond the end of the data
mx_set(m, rid, cid, val) ==
    IF mx_index_div_zero(m) THEN [out |-> Panic("DivideByZero"), mat |-> m]
    ELSE LET i == mx_index(m, rid, cid) IN
         IF i < Len(m.data)
         THEN [out |-> Ok(val), mat |-> [m EXCEPT !.data[i + 1] = val]]
         ELSE [out |-> Panic("IndexOutOfBounds"), mat |-> m]

mx_from_vec(dat, rows, cols) ==
    IF rows * cols # Len(dat)
    THEN [out |-> Panic("Assert")]
    ELSE [out |-> Ok(0), mat |-> XMatrix(dat, rows, cols, "Row", cols)]

\* `match self.get_mode() { Column => ..., Row => ... }`: the first arm again
\* matches every mode.  _data[i * rows + j] = data[j * strd + i], read with
\* get_unchecked: a read beyond the data is undefined behaviour.  The outcome,
\* the receiver (&mut self) as it is left, and the matrix returned.
mx_transpose(m) ==
    LET n == m.cols * m.rows
        src(k) == ((k - 1) % m.rows) * m.strd + ((k - 1) \div m.rows)
    IN  IF \E k \in 1..n : src(k) >= Len(m.data)
        THEN [out |-> Panic("UndefinedBehaviour")]
        ELSE [out |-> Ok(0), self |-> m,
              mat |-> XMatrix([k \in 1..n |-> m.data[src(k) + 1]],
                              m.cols, m.rows, Axis_t(m.mode), m.rows)]

---------------------------------------------------------------------------
(* vector_data.rs: Vector { data: Vec<T> }, T: Float.  A Float element is  *)
(* a finite value (an integer here), the most negative finite value        *)
(* T::min_value(), negative infinity, or NaN.                              *)

MinValue == -99
NegInf == MinValue - 2
NaN == MinValue - 1

Floats == {NegInf, MinValue, NaN} \cup (1..MaxVal)
VFns == {"inc", "dbl"}                   \* closures handed to apply

RECURSIVE SeqsUpTo(_, _)
SeqsUpTo(S, n) ==
    IF n = 0 THEN {<<>>}
    ELSE LET shorter == SeqsUpTo(S, n - 1)
         IN  shorter \cup {Append(q, x) : q \in {t \in shorter : Len(t) = n - 1},
                                          x \in S}

VecInputs == SeqsUpTo(Floats, MaxVecLen) \cup {<<3, 1, 4, 1, 5, 9, 2, 6>>}

\* the closures f(x) = x + 1.0 and f(x) = 2.0 * x in Float arithmetic
ApplyF(f, x) ==
    IF x = NaN \/ x = NegInf THEN x
    ELSE IF x = MinValue THEN (IF f = "inc" THEN MinValue ELSE NegInf)
    ELSE IF f = "inc" THEN x + 1 ELSE 2 * x

\* Float::max: when one argument is NaN the other is returned
Float_max(x, y) ==
    IF y = NaN THEN x
    ELSE IF x = NaN THEN y
    ELSE IF x >= y THEN x ELSE y

\* x == y on Floats: NaN equals nothing
Float_eq(x, y) == x # NaN /\ y # NaN /\ x = y

\* x >= y on Floats: false when either is NaN
Float_ge(x, y) == x # NaN /\ y # NaN /\ x >= y

Vector_new(data) == [data |-> data]

\* for val in &mut self.data { *val = f(*val) }, from element k on
RECURSIVE apply_loop(_, _, _)
apply_loop(data, f, k) ==
    IF k > Len(data) THEN data
    ELSE apply_loop([data EXCEPT ![k] = ApplyF(f, data[k])], f, k + 1)

apply_first_only(v, f) ==
    [data |-> IF v.data = <<>> THEN v.data
              ELSE [v.data EXCEPT ![1] = ApplyF(f, v.data[1])]]

apply(v, f) == [data |-> apply_loop(v.data, f, 1)]

\* into_iter().fold(T::min_value(), |x, y| x.max(y)), from element k on
RECURSIVE fold_max(_, _, _)
fold_max(data, acc, k) ==
    IF k > Len(data) THEN acc
    ELSE fold_max(data, Float_max(acc, data[k]), k + 1)

\* into_iter().position(|x| x == m), searching from element k on
RECURSIVE position(_, _, _)
position(data, m, k) ==
    IF k > Len(data) THEN None
    ELSE IF Float_eq(data[k], m) THEN Ok(k - 1)
    ELSE position(data, m, k + 1)

\* argsort: position(..).unwrap() panics on None
argsort(v) ==
    LET m == fold_max(v.data, MinValue, 1)
        p == position(v.data, m, 1)
    IN  IF p.status = "none" THEN Panic("UnwrapNone") ELSE p

---------------------------------------------------------------------------
(* slice.rs: MatrixSlice::from_matrix and MatrixMutSlice::from_matrix.     *)
(* pt is the flat offset the pointer is taken at.                          *)

MatrixSlice(pt, nr, nc, rs) == [pt |-> pt, nr |-> nr, nc |-> nc, rs |-> rs]

\* get_unchecked(begin[0] * cols + begin[1]) beyond the data is undefined
\* behaviour; `ub` tells whether the call then crashes or returns the pointer
from_matrix(mat, begin, nr, nc, ub) ==
    LET pt == begin[1] * mat.cols + begin[2] IN
    IF ~(begin[1] + nr <= nr) \/ ~(begin[2] + nc <= nc)
    THEN [out |-> Panic("Assert")]
    ELSE IF pt >= Len(mat.data) /\ ub = "crash"
    THEN [out |-> Panic("UndefinedBehaviour")]
    ELSE [out |-> Ok(0), slice |-> MatrixSlice(pt, nr, nc, mat.cols)]

---------------------------------------------------------------------------
(* The calls a client makes.  A panic unwinds the client: nothing is called *)
(* after it.  A client that iterates runs its loop to the end: no other    *)
(* call is made once into_iter has been called.  get returns a value and   *)
(* changes nothing, so a run is followed up to its first get: every get in *)
(* every state a client can reach is still observed.                       *)

NoCall == [op |-> "none", h |-> 0, args |-> <<>>, out |-> Ok(0)]

Fresh == last.op = "none"
Running == last.op # "none" /\ last.out.status # "panic"
Calling == Running /\ ~iter.active /\ last.op \notin {"get", "mx_get"}
Live(h) == h \in 1..Len(mats) /\ made[h].live

Init ==
    /\ bufs = <<>>
    /\ mats = <<>>
    /\ made = <<>>
    /\ nset = 0
    /\ iter = NoIter
    /\ yielded = <<>>
    /\ xmats = <<>>
    /\ slices = <<>>
    /\ vecs = <<>>
    /\ last = NoCall

\* a constructor call whose outcome is r
Construct(op, args, r) ==
    /\ Fresh
    /\ IF r.out.status = "ok"
       THEN /\ bufs' = <<r.buf>>
            /\ mats' = <<Matrix(1, r.vdim, r.axis)>>
            /\ made' = <<[by |-> op, of |-> 0, args |-> args, live |-> TRUE]>>
       ELSE UNCHANGED <<bufs, mats, made>>
    /\ last' = [op |-> op, h |-> 1, args |-> args, out |-> r.out]
    /\ UNCHANGED <<nset, iter, yielded, xmats, slices, vecs>>

FromVec ==
    \E n \in Lens, base \in Bases, nrow \in Dims, ncol \in Dims :
        Construct("from_vec",
                  [data |-> Iota(n, base), nrow |-> nrow, ncol |-> ncol],
                  from_vec(Iota(n, base), nrow, ncol))

FromFn ==
    \E nrow \in Dims, ncol \in Dims, f \in Fns :
        Construct("from_fn", [nrow |-> nrow, ncol |-> ncol, f |-> f],
                  from_fn(nrow, ncol, f))

Unit ==
    \E nrow \in Dims, ncol \in Dims :
        Construct("unit", [nrow |-> nrow, ncol |-> ncol], unit(nrow, ncol))

Zero ==
    \E nrow \in Dims, ncol \in Dims :
        Construct("zero", [nrow |-> nrow, ncol |-> ncol], zero(nrow, ncol))

Diag ==
    \E n \in Dims, base \in Bases :
        Construct("diag", [vec |-> Iota(n, base)], diag(Iota(n, base)))

Eye ==
    \E n \in EyeDims : Construct("eye", [n |-> n], eye(n))

Get ==
    /\ Calling
    /\ \E h \in 1..Len(mats), rid \in Coords, cid \in Coords :
        /\ Live(h)
        /\ last' = [op |-> "get", h |-> h, args |-> [row |-> rid, col |-> cid],
                    out |-> get(mats[h], bufs, rid, cid)]
        /\ UNCHANGED <<bufs, mats, made, nset, iter, yielded, xmats, slices, vecs>>

Set ==
    /\ Calling
    /\ nset < MaxSets
    /\ \E h \in 1..Len(mats), rid \in Coords, cid \in Coords, val \in SetVals :
        /\ Live(h)
        /\ LET s == set(mats[h], bufs, rid, cid, val) IN
              /\ bufs' = s.heap
              /\ nset' = IF s.out.status = "ok" THEN nset + 1 ELSE nset
              /\ last' = [op |-> "set", h |-> h,
                          args |-> [row |-> rid, col |-> cid, val |-> val],
                          out |-> s.out]
        /\ UNCHANGED <<mats, made, iter, yielded, xmats, slices, vecs>>

CloneDeep ==
    /\ Calling
    /\ Len(mats) < MaxMats
    /\ \E h \in 1..Len(mats) :
        /\ Live(h)
        /\ bufs' = Append(bufs, bufs[mats[h].data])
        /\ mats' = Append(mats, [mats[h] EXCEPT !.data = Len(bufs) + 1])
        /\ made' = Append(made, [by |-> "clone", of |-> h, args |-> <<>>,
                                  live |-> TRUE])
        /\ last' = [op |-> "clone", h |-> h, args |-> <<>>, out |-> Ok(0)]
        /\ UNCHANGED <<nset, iter, yielded, xmats, slices, vecs>>

\* #[derive(Clone)] on Matrix: the Rc is cloned, the buffer is shared
Clone ==
    /\ Calling
    /\ Len(mats) < MaxMats
    /\ \E h \in 1..Len(mats) :
        /\ Live(h)
        /\ mats' = Append(mats, mats[h])
        /\ made' = Append(made, [by |-> "clone", of |-> h, args |-> <<>>,
                                  live |-> TRUE])
        /\ last' = [op |-> "clone", h |-> h, args |-> <<>>, out |-> Ok(0)]
        /\ UNCHANGED <<bufs, nset, iter, yielded, xmats, slices, vecs>>

Transpose ==
    /\ Calling
    /\ Len(mats) < MaxMats
    /\ \E h \in 1..Len(mats), build \in {"debug", "release"} :
        /\ Live(h)
        /\ LET t == transpose(mats[h], bufs, build) IN
              /\ IF t.out.status = "ok"
                 THEN /\ bufs' = t.heap
                      /\ mats' = Append(mats, t.mat)
                      /\ made' = Append(made, [by |-> "transpose", of |-> h,
                                                args |-> <<>>, live |-> TRUE])
                 ELSE UNCHANGED <<bufs, mats, made>>
              /\ last' = [op |-> "transpose", h |-> h, args |-> <<>>, out |-> t.out]
        /\ UNCHANGED <<nset, iter, yielded, xmats, slices, vecs>>

\* IntoIterator::into_iter moves the handle into the iterator
IntoIter ==
    /\ Calling
    /\ \E h \in 1..Len(mats) :
        /\ Live(h)
        /\ iter' = [active |-> TRUE, mat |-> mats[h], index |-> <<0, 0>>,
                    done |-> FALSE]
        /\ yielded' = <<>>
        /\ made' = [made EXCEPT ![h].live = FALSE]
        /\ last' = [op |-> "into_iter", h |-> h, args |-> <<>>, out |-> Ok(0)]
        /\ UNCHANGED <<bufs, mats, nset, xmats, slices, vecs>>

\* one pass of `for x in m`: next is called until it returns None
IterNext ==
    /\ Running
    /\ iter.active
    /\ ~iter.done
    /\ LET n == next(iter, bufs) IN
          /\ iter' = [iter EXCEPT !.index = n.index,
                                  !.done = (n.out = None)]
          /\ yielded' = IF n.out.status = "ok"
                        THEN Append(yielded, n.out.val) ELSE yielded
          /\ last' = [op |-> "next", h |-> 0, args |-> <<>>, out |-> n.out]
    /\ UNCHANGED <<bufs, mats, made, nset, xmats, slices, vecs>>

MxFromVec ==
    \E n \in Lens, base \in Bases, rows \in Dims, cols \in Dims :
        LET r == mx_from_vec(Iota(n, base), rows, cols)
            args == [data |-> Iota(n, base), nrow |-> rows, ncol |-> cols]
        IN
        /\ Fresh
        /\ IF r.out.status = "ok"
           THEN /\ xmats' = <<r.mat>>
                /\ made' = <<[by |-> "mx_from_vec", of |-> 0, args |-> args,
                              live |-> TRUE]>>
           ELSE UNCHANGED <<xmats, made>>
        /\ last' = [op |-> "mx_from_vec", h |-> 1, args |-> args, out |-> r.out]
        /\ UNCHANGED <<bufs, mats, nset, iter, yielded, slices, vecs>>

MxGet ==
    /\ Calling
    /\ \E h \in 1..Len(xmats), rid \in Coords, cid \in Coords :
        /\ last' = [op |-> "mx_get", h |-> h, args |-> [row |-> rid, col |-> cid],
                    out |-> mx_get(xmats[h], rid, cid)]
        /\ UNCHANGED <<bufs, mats, made, nset, iter, yielded, xmats, slices, vecs>>

MxSet ==
    /\ Calling
    /\ \E h \in 1..Len(xmats), rid \in Coords, cid \in Coords, val \in SetVals :
        /\ nset < MaxSets
        /\ LET s == mx_set(xmats[h], rid, cid, val) IN
              /\ xmats' = [xmats EXCEPT ![h] = s.mat]
              /\ nset' = IF s.out.status = "ok" THEN nset + 1 ELSE nset
              /\ last' = [op |-> "mx_set", h |-> h,
                          args |-> [row |-> rid, col |-> cid, val |-> val],
                          out |-> s.out]
        /\ UNCHANGED <<bufs, mats, made, iter, yielded, slices, vecs>>

MxTranspose ==
    /\ Calling
    /\ \E h \in 1..Len(xmats) :
        /\ Len(xmats) < MaxMats
        /\ LET t == mx_transpose(xmats[h]) IN
              /\ IF t.out.status = "ok"
                 THEN /\ xmats' = Append([xmats EXCEPT ![h] = t.self], t.mat)
                      /\ made' = Append(made, [by |-> "mx_transpose", of |-> h,
                                                args |-> <<>>, live |-> TRUE])
                 ELSE UNCHANGED <<xmats, made>>
              /\ last' = [op |-> "mx_transpose", h |-> h, args |-> <<>>,
                          out |-> t.out]
        /\ UNCHANGED <<bufs, mats, nset, iter, yielded, slices, vecs>>

\* MatrixSlice::from_matrix (kind "slice") and MatrixMutSlice::from_matrix
\* (kind "mut_slice") make the same checks and take the same pointer
FromMatrix ==
    /\ Calling
    /\ slices = <<>>
    /\ \E h \in 1..Len(xmats), kind \in {"slice", "mut_slice"},
          b0 \in Begins, b1 \in Begins, nr \in SliceDims, nc \in SliceDims,
          ub \in {"crash", "return"} :
        /\ LET r == from_matrix(xmats[h], <<b0, b1>>, nr, nc, ub) IN
              /\ slices' = IF r.out.status = "ok" THEN <<r.slice>> ELSE slices
              /\ last' = [op |-> kind, h |-> h,
                          args |-> [begin |-> <<b0, b1>>, nr |-> nr, nc |-> nc],
                          out |-> r.out]
        /\ UNCHANGED <<bufs, mats, made, nset, iter, yielded, xmats, vecs>>

Next ==
    \/ FromVec
    \/ FromFn
    \/ Unit
    \/ Zero
    \/ Diag
    \/ Eye
    \/ Get
    \/ Set
    \/ Clone
    \/ Transpose
    \/ IntoIter
    \/ IterNext
    \/ MxFromVec
    \/ MxGet
    \/ MxSet
    \/ MxTranspose

Spec == Init /\ [][Next]_vars

\* clients that build a matrix and read it
NextNew ==
    \/ FromVec
    \/ FromFn
    \/ Unit
    \/ Zero
    \/ Diag
    \/ Eye
    \/ MxFromVec
    \/ Get
    \/ MxGet

SpecNew == Init /\ [][NextNew]_vars

\* clients that build a matrix, transpose it any number of times and read
NextTranspose ==
    \/ FromVec
    \/ FromFn
    \/ Unit
    \/ Zero
    \/ Diag
    \/ Eye
    \/ MxFromVec
    \/ Transpose
    \/ MxTranspose
    \/ Get
    \/ MxGet

SpecTranspose == Init /\ [][NextTranspose]_vars

\* clients that build a matrix, clone handles and write through them
NextShare ==
    \/ FromVec
    \/ FromFn
    \/ Unit
    \/ Zero
    \/ Diag
    \/ Eye
    \/ Clone
    \/ Set

SpecShare == Init /\ [][NextShare]_vars

\* the clients of slice.rs: a matrix.rs Matrix is built, perhaps transposed,
\* and a slice of it is asked for
NextSlice ==
    \/ MxFromVec
    \/ MxTranspose
    \/ FromMatrix

SpecSlice == Init /\ [][NextSlice]_vars

\* the clients of vector_data.rs.  apply takes self by value: the receiver is
\* moved.  argsort returns an index and changes nothing, so a run is followed
\* up to its first argsort.
VecCalling == Running /\ last.op # "argsort"

VecNew ==
    /\ Fresh
    /\ \E data \in VecInputs :
        /\ vecs' = <<[vec |-> Vector_new(data), by |-> "vec_new", of |-> 0,
                      f |-> "none", live |-> TRUE]>>
        /\ last' = [op |-> "vec_new", h |-> 1, args |-> [data |-> data],
                    out |-> Ok(0)]
    /\ UNCHANGED <<bufs, mats, made, nset, iter, yielded, xmats, slices>>

VecApply ==
    /\ VecCalling
    /\ Len(vecs) <= MaxApplies
    /\ \E h \in 1..Len(vecs), f \in VFns :
        /\ vecs[h].live
        /\ vecs' = Append([vecs EXCEPT ![h].live = FALSE],
                          [vec |-> apply(vecs[h].vec, f), by |-> "apply",
                           of |-> h, f |-> f, live |-> TRUE])
        /\ last' = [op |-> "apply", h |-> h, args |-> [f |-> f], out |-> Ok(0)]
    /\ UNCHANGED <<bufs, mats, made, nset, iter, yielded, xmats, slices>>

VecArgsort ==
    /\ VecCalling
    /\ \E h \in 1..Len(vecs) :
        /\ vecs[h].live
        /\ last' = [op |-> "argsort", h |-> h, args |-> <<>>,
                    out |-> argsort(vecs[h].vec)]
    /\ UNCHANGED <<bufs, mats, made, nset, iter, yielded, xmats, slices, vecs>>

NextVector ==
    \/ VecNew
    \/ VecApply
    \/ VecArgsort

SpecVector == Init /\ [][NextVector]_vars

---------------------------------------------------------------------------
(* Properties.                                                             *)

IsCtor(by) == by \in {"from_vec", "from_fn", "unit", "zero", "diag", "eye"}
InRange(m, i, j) == i < shape(m)[1] /\ j < shape(m)[2]
Swap(p) == <<p[2], p[1]>>

\* C1: for nrow >= 1, ncol >= 1 and data of length nrow*ncol, get(i, j) on
\* from_vec(data, nrow, ncol) returns data[i*ncol + j] for every 0 <= i < nrow,
\* 0 <= j < ncol (both Matrix types; no set has been made on the matrix).
C1_FromVecRowMajor ==
    (/\ last.op \in {"get", "mx_get"}
     /\ made[last.h].by \in {"from_vec", "mx_from_vec"}
     /\ nset = 0)
    => LET a == made[last.h].args
           i == last.args.row
           j == last.args.col
       IN  (a.nrow >= 1 /\ a.ncol >= 1 /\ i < a.nrow /\ j < a.ncol)
           => last.out = Ok(a.data[i * a.ncol + j + 1])

\* C2: on a matrix of logical shape (nrows, ncols), get(row, col) and
\* set(row, col, v) with row >= nrows or col >= ncols fail (here: with any
\* panic, or for matrix.rs get with None) whatever the flat offset is: no
\* element value is returned and no buffer element is changed.
C2_OutOfRangeFails ==
    [][(\/ /\ last'.op \in {"get", "set"}
           /\ ~InRange(mats[last'.h], last'.args.row, last'.args.col)
        \/ /\ last'.op \in {"mx_get", "mx_set"}
           /\ \/ last'.args.row >= xmats[last'.h].rows
              \/ last'.args.col >= xmats[last'.h].cols)
       => /\ last'.out.status # "ok"
          /\ bufs' = bufs
          /\ xmats' = xmats]_vars

\* C3: for M returned by a constructor, of any shape, M.transpose() and
\* M.transpose().transpose() return without error, and the latter has the
\* shape of M and the value of M at every in-range coordinate.
C3_TransposeInvolution ==
    /\ (last.op = "transpose" /\ IsCtor(made[last.h].by))
       => last.out.status = "ok"
    /\ (/\ last.op = "transpose"
        /\ made[last.h].by = "transpose"
        /\ IsCtor(made[made[last.h].of].by)
        /\ nset = 0)
       => /\ last.out.status = "ok"
          /\ LET M == mats[made[last.h].of]
                 R == mats[Len(mats)]
             IN  /\ shape(R) = shape(M)
                 /\ \A i \in 0..(shape(M)[1] - 1), j \in 0..(shape(M)[2] - 1) :
                        /\ get(M, bufs, i, j).status = "ok"
                        /\ get(R, bufs, i, j) = get(M, bufs, i, j)

C5_IterRowMajor ==
    (iter.active /\ shape(iter.mat)[1] >= 1 /\ shape(iter.mat)[2] >= 1)
    => /\ last.op = "next" => last.out.status # "panic"
       /\ iter.done
          => LET nc == shape(iter.mat)[2]
             IN  /\ Len(yielded) = shape(iter.mat)[1] * nc
                 /\ \A k \in 0..(Len(yielded) - 1) :
                        Ok(yielded[k + 1])
                          = get(iter.mat, bufs, k \div nc, k % nc)

\* C6: from_matrix(mat, [begin_row, begin_col], num_rows, num_cols), stated
\* for a mat with at least one element, returns a slice if and only if
\* begin_row + num_rows <= rows of mat and begin_col + num_cols <= columns of
\* mat, and otherwise fails on its assertions, before a pointer is taken.
C6_SliceBounds ==
    (last.op \in {"slice", "mut_slice"} /\ Len(xmats[last.h].data) >= 1)
    => LET m == xmats[last.h]
           fits == /\ last.args.begin[1] + last.args.nr <= m.rows
                   /\ last.args.begin[2] + last.args.nc <= m.cols
       IN  /\ fits => last.out.status = "ok"
           /\ ~fits => last.out = Panic("Assert")

\* C7: transpose leaves its receiver as it was: every buffer and every handle
\* that existed before the call (the receiver's among them: buffer contents,
\* r, c, viewport, axis) is the same after it.
C7_TransposeFrame ==
    [][/\ last'.op = "transpose"
          => /\ \A b \in 1..Len(bufs) : bufs'[b] = bufs[b]
             /\ \A h \in 1..Len(mats) : mats'[h] = mats[h]
       /\ last'.op = "mx_transpose"
          => \A h \in 1..Len(xmats) : xmats'[h] = xmats[h]]_vars

C7_Witness ==
    /\ last.op = "transpose"
    /\ last.out.status = "ok"
    /\ Len(bufs[mats[last.h].data].d) = 6
    /\ bufs[mats[Len(mats)].data].d # bufs[mats[last.h].data].d

\* C8: a handle and its clone share one buffer: after a set(row, col, v)
\* that returned, get(row, col) through the handle and through each of its
\* clones (or through the handle it was cloned from) returns v.
Alias(g, h) ==
    \/ g = h
    \/ made[g].by = "clone" /\ made[g].of = h
    \/ made[h].by = "clone" /\ made[h].of = g

C8_SharedSet ==
    (last.op = "set" /\ last.out.status = "ok")
    => \A g \in 1..Len(mats) :
          Alias(g, last.h)
          => get(mats[g], bufs, last.args.row, last.args.col) = Ok(last.args.val)

C8_Witness ==
    /\ last.op = "set"
    /\ last.out.status = "ok"
    /\ \E g \in 1..Len(mats) :
          /\ g # last.h
          /\ Alias(g, last.h)
          /\ get(mats[g], bufs, last.args.row, last.args.col) = Ok(last.args.val)

\* C9: from_vec(data, nrow, ncol) with data.len() # nrow*ncol fails (the
\* length assertion panics) and returns no matrix.
C9_FromVecMismatch ==
    (/\ last.op \in {"from_vec", "mx_from_vec"}
     /\ Len(last.args.data) # last.args.nrow * last.args.ncol)
    => /\ last.out.status = "panic"
       /\ mats = <<>>
       /\ xmats = <<>>

C9_Witness ==
    /\ last.op = "from_vec"
    /\ Len(last.args.data) = 4
    /\ last.args.nrow = 3
    /\ last.args.ncol = 2
    /\ last.out.status = "panic"

\* C10: diag(v) for v of length n is n x n with v[i] at (i, i) and 0 at
\* (i, j), i # j; eye(n) is n x n with 1 on the diagonal and 0 elsewhere.
IsDiagOf(M, heap, v) ==
    /\ shape(M) = <<Len(v), Len(v)>>
    /\ \A i \in 0..(Len(v) - 1), j \in 0..(Len(v) - 1) :
          get(M, heap, i, j) = Ok(IF i = j THEN v[i + 1] ELSE 0)

C10_DiagEye ==
    /\ last.op = "diag"
       => /\ last.out.status = "ok"
          /\ IsDiagOf(mats[1], bufs, last.args.vec)
    /\ last.op = "eye"
       => /\ last.out.status = "ok"
          /\ IsDiagOf(mats[1], bufs, [k \in 1..last.args.n |-> 1])

C10_Witness ==
    /\ last.op = "diag"
    /\ last.args.vec = <<1, 2, 3>>
    /\ get(mats[1], bufs, 2, 2) = Ok(3)
    /\ get(mats[1], bufs, 2, 1) = Ok(0)

\* C11: zero(r, c), for all r, c >= 0, has size() = r*c and get(i, j) returns
\* 0 for every 0 <= i < r, 0 <= j < c; unit(r, c) has size() = r*c and
\* get(i, j) returns 1 at every such coordinate.
C11_ZeroUnit ==
    (last.op \in {"zero", "unit"})
    => LET a == last.args
           fill == IF last.op = "zero" THEN 0 ELSE 1
       IN  /\ last.out.status = "ok"
           /\ size(mats[1], bufs) = a.nrow * a.ncol
           /\ \A i \in 0..(a.nrow - 1), j \in 0..(a.ncol - 1) :
                  get(mats[1], bufs, i, j) = Ok(fill)

C11_Witness ==
    /\ last.op = "zero"
    /\ last.args = [nrow |-> 3, ncol |-> 2]
    /\ size(mats[1], bufs) = 6
    /\ get(mats[1], bufs, 2, 1) = Ok(0)

\* C12: argsort on a non-empty vector v returns the first index p with
\* v[p] >= v[k] for every k (5 for [3,1,4,1,5,9,2,6]); on an empty vector it
\* fails instead of returning an index.
C12_Argmax ==
    (last.op = "argsort")
    => LET v == vecs[last.h].vec.data
           p == last.out.val
       IN  /\ v = <<>> => last.out.status = "panic"
           /\ v # <<>>
              => /\ last.out.status = "ok"
                 /\ p < Len(v)
                 /\ \A k \in 1..Len(v) : Float_ge(v[p + 1], v[k])
                 /\ \A k \in 1..p : ~Float_ge(v[k], v[p + 1])
           /\ v = <<3, 1, 4, 1, 5, 9, 2, 6>> => last.out = Ok(5)

\* C13: v.apply(f).apply(g) has the length of v and is, element by element,
\* the same Float value as g(f(x)) for the element x of v at that place.
C13_ApplyCompose ==
    (last.op = "apply" /\ vecs[last.h].by = "apply")
    => LET v == vecs[vecs[last.h].of].vec.data
           f == vecs[last.h].f
           g == last.args.f
           w == vecs[Len(vecs)].vec.data
       IN  /\ Len(w) = Len(v)
           /\ \A k \in 1..Len(v) : w[k] = ApplyF(g, ApplyF(f, v[k]))

C13_Witness ==
    /\ last.op = "apply"
    /\ last.args.f = "dbl"
    /\ vecs[last.h].by = "apply"
    /\ vecs[last.h].f = "inc"
    /\ vecs[vecs[last.h].of].vec.data = <<1, 2, 1>>
    /\ vecs[Len(vecs)].vec.data = <<4, 6, 4>>

\* C14: for every matrix reached by a constructor followed by transposes,
\* index sends every in-range (row, col) to an offset below the buffer
\* length, and two distinct in-range coordinates to two distinct offsets
\* (both Matrix types).
InRangeCoords(nr, nc) == (0..(nr - 1)) \X (0..(nc - 1))

C14_IndexInjective ==
    /\ \A h \in 1..Len(mats) :
          LET m == mats[h]
              b == bufs[m.data]
              P == InRangeCoords(shape(m)[1], shape(m)[2])
          IN  /\ P # {} => ~index_div_zero(m, b)
              /\ \A p \in P : index(m, b, p[1], p[2]) < Len(b.d)
              /\ \A p, q \in P :
                     index(m, b, p[1], p[2]) = index(m, b, q[1], q[2]) => p = q
    /\ \A h \in 1..Len(xmats) :
          LET m == xmats[h]
              P == InRangeCoords(m.rows, m.cols)
          IN  /\ P # {} => ~mx_index_div_zero(m)
              /\ \A p \in P : mx_index(m, p[1], p[2]) < Len(m.data)
              /\ \A p, q \in P :
                     mx_index(m, p[1], p[2]) = mx_index(m, q[1], q[2]) => p = q

\* C15: for M returned by a constructor and T = M.transpose(), T.get(j, i)
\* returns what M.get(i, j) returns, for every in-range (i, j) of M.
C15_TransposeValues ==
    (/\ last.op = "transpose"
     /\ last.out.status = "ok"
     /\ IsCtor(made[last.h].by))
    => LET M == mats[last.h]
           T == mats[Len(mats)]
       IN  \A p \in InRangeCoords(shape(M)[1], shape(M)[2]) :
               /\ get(M, bufs, p[1], p[2]).status = "ok"
               /\ get(T, bufs, p[2], p[1]) = get(M, bufs, p[1], p[2])

\* C16: in Axes and in Axis, t() maps Column to Row and Row to Column, so
\* t(t(a)) = a, and the matrix a transpose returns has the axis opposite to
\* its receiver's.
Opposite(a) == IF a = "Column" THEN "Row" ELSE "Column"

C16_AxisFlip ==
    /\ (last.op = "transpose" /\ last.out.status = "ok")
       => LET a == mats[last.h].axis
          IN  /\ Axes_t(a) = Opposite(a)
              /\ Axes_t(Axes_t(a)) = a
              /\ mats[Len(mats)].axis = Opposite(a)
    /\ (last.op = "mx_transpose" /\ last.out.status = "ok")
       => LET a == xmats[last.h].mode
          IN  /\ Axis_t(a) = Opposite(a)
              /\ Axis_t(Axis_t(a)) = a
              /\ xmats[Len(xmats)].mode = Opposite(a)

\* C17: after any sequence of constructor calls, set calls that returned,
\* clones and transposes, every Matrix's buffer has r * c = buffer length and
\* its viewport has shape().0 * shape().1 = size().
C17_BufferShape ==
    \A h \in 1..Len(mats) :
        LET b == bufs[mats[h].data]
        IN  /\ b.r * b.c = Len(b.d)
            /\ shape(mats[h])[1] * shape(mats[h])[2] = size(mats[h], bufs)

C17_Witness ==
    /\ last.op = "transpose"
    /\ last.out.status = "ok"
    /\ nset = 1
    /\ made[last.h].by = "clone"
    /\ shape(mats[Len(mats)]) = <<2, 3>>
    /\ bufs[mats[Len(mats)].data].r = 3
    /\ bufs[mats[Len(mats)].data].c = 2
    /\ size(mats[Len(mats)], bufs) = 6

\* C18: a set(i, j, v) that returns, with (i, j) in range, makes get(i, j)
\* return v and leaves what get returns at every other in-range coordinate
\* as it was.
C18_SetFrame ==
    [][(/\ last'.op = "set"
        /\ last'.out.status = "ok"
        /\ InRange(mats[last'.h], last'.args.row, last'.args.col))
       => LET m == mats[last'.h]
              i == last'.args.row
              j == last'.args.col
          IN  /\ get(m, bufs', i, j) = Ok(last'.args.val)
              /\ \A p \in InRangeCoords(shape(m)[1], shape(m)[2]) :
                     p # <<i, j>> => get(m, bufs', p[1], p[2])
                                       = get(m, bufs, p[1], p[2])]_vars

\* C19: for every matrix reached by a constructor followed by transposes,
\* under either axis value, shape() = (nrows(), ncols()).
C19_ShapeCounts ==
    \A h \in 1..Len(mats) : shape(mats[h]) = <<nrows(mats[h]), ncols(mats[h])>>

====
